---- MODULE Spec2Model ----
(***************************************************************************)
(* Fraud-scoring pipeline of CipherStorm (app/services/fraud_service.py)   *)
(* and the transaction endpoints that call it (app/routers/transaction.py).*)
(*                                                                         *)
(* Numbers.  Scores are kept exactly, in units of 1/10000: the classifier  *)
(* answers in thousandths, the Layer C confidence is a multiple of 1/40,   *)
(* so 0.3*g + 0.4 + 0.3*c is always a whole number of 1/10000.  Amounts    *)
(* are whole rupees; a percentile is kept as 100 times its value, which is *)
(* exact for numpy's linear interpolation at whole percents.               *)
(*                                                                         *)
(* Records.  Every record is written with its fields in the order in which *)
(* the field names first appear in this module: that is the order TLC      *)
(* keeps records in, so no worker ever has to reorder a record that        *)
(* another worker is reading.                                              *)
(***************************************************************************)
EXTENDS Integers, Sequences, FiniteSets, TLC

VARIABLES
    global_model,            \* "loaded" | "None"            (fraud_service.py:18-25)
    global_label_encoders,   \* feature -> class list         (fraud_service.py:27-33)
    global_freq_encoders,    \* feature -> (value -> count)   (fraud_service.py:35-41)
    local_label_encoders,    \* feature -> class list         (fraud_service.py:44-50)
    local_freq_encoders,     \* feature -> (value -> count)   (fraud_service.py:52-58)
    db,                      \* transaction_table rows of the user, by created_at
    profile,                 \* the user's Profile row
    call,                    \* the scoring request in progress or just finished
    otp_store,               \* routers/transaction.py:29
    thr,                     \* the encoder calls of two concurrent requests
    enc_log,                 \* the last two encoder calls made one after the other
    fn,                      \* the last call of a function made on its own
    now,                     \* the time, in units of five minutes
    otp_issued,              \* when, and for which row, each OTP was stored
    ver,                     \* the requests to /verify_otp in progress
    stepup                   \* the last request to /auth/step-up-verify

vars == << global_model, global_label_encoders, global_freq_encoders,
           local_label_encoders, local_freq_encoders, db, profile,
           call, otp_store, thr, enc_log, fn, now, otp_issued, ver, stepup >>

encoder_vars == << global_label_encoders, global_freq_encoders,
                   local_label_encoders, local_freq_encoders >>

-----------------------------------------------------------------------------
(* Bounds of the model *)

\* The number of rows the user has in transaction_table when the process starts
\* ranges over 0..MaxPrior.
MaxPrior == 11

\* POST /transaction/ is requested at most MaxCreates times
MaxCreates == 2

\* The clock runs up to MaxClock units of five minutes
MaxClock == 3

\* get_user_transaction_stats is called on histories of at most MaxHistory rows
MaxHistory == 3

\* Each of the two concurrent requests makes at most MaxThreadCalls encoder calls
MaxThreadCalls == 2

\* At most MaxEncCalls encoder calls are made one after the other
MaxEncCalls == 3

-----------------------------------------------------------------------------
(* Python values *)

\* None, for a string-typed field
None == "<None>"

\* None, for a numeric field (coordinates, transaction_limit)
NoNum == -1

\* `x if x else default` on a string: None and "" are falsy
OrDefault(x, default) == IF x = None \/ x = "" THEN default ELSE x

Min(a, b) == IF a <= b THEN a ELSE b

\* a dict as a function: d[k] = v
DictPut(d, k, v) == [x \in (DOMAIN d) \cup {k} |-> IF x = k THEN v ELSE d[x]]

\* d.get(k, default)
DictGet(d, k, default) == IF k \in DOMAIN d THEN d[k] ELSE default

EmptyDict == [x \in {} |-> 0]

\* del d[k]
DictRemove(d, k) == [x \in (DOMAIN d) \ {k} |-> d[x]]

\* `v in seq`
InSeq(s, v) == \E i \in 1..Len(s) : s[i] = v

\* abs(x)
Abs(x) == IF x < 0 THEN -x ELSE x

-----------------------------------------------------------------------------
(* Amount features of the global model *)

\* An outlier test without the guard against a zero deviation
is_amount_outlier_NoGuard(amount, amount_mean, amount_std) ==
    IF Abs(amount - amount_mean) > 3 * Abs(amount_std) THEN 1 ELSE 0

\* is_amount_outlier: abs((amount - amount_mean) / amount_std) > 3, the
\* quotient compared exactly
is_amount_outlier(amount, amount_mean, amount_std) ==
    IF amount_std = 0
    THEN 0
    ELSE IF Abs(amount - amount_mean) > 3 * Abs(amount_std) THEN 1 ELSE 0

-----------------------------------------------------------------------------
(* 4.1 Categorical encoder *)

\* An encoder object that has no classes_ attribute yet
NoClasses == << "<no classes_>" >>

\* str(value) if value is not None else "Unknown"
StrValue(value) == IF value = None THEN "Unknown" ELSE value

\* encoder.transform([v])[0] of a value that is in classes_: its index (0-based)
Transform(classes, v) ==
    (CHOOSE i \in 1..Len(classes) :
        classes[i] = v /\ \A j \in 1..(i - 1) : classes[j] # v) - 1

\* A label encoder that reads the class count after the append
handle_new_category_label_encoder_CountAfter(classes, value) ==
    LET str_value == StrValue(value) IN
    IF classes = NoClasses
    THEN [classes |-> << str_value >>, code |-> 0]
    ELSE IF InSeq(classes, str_value)
         THEN [classes |-> classes, code |-> Transform(classes, str_value)]
         ELSE [classes |-> Append(classes, str_value), code |-> Len(classes) + 1]

\* handle_new_category_label_encoder: the code returned and classes_ afterwards
handle_new_category_label_encoder(classes, value) ==
    LET str_value == StrValue(value) IN
    IF classes = NoClasses
    THEN [classes |-> << str_value >>, code |-> 0]
    ELSE IF InSeq(classes, str_value)
         THEN [classes |-> classes, code |-> Transform(classes, str_value)]
         ELSE [classes |-> Append(classes, str_value), code |-> Len(classes)]

\* A frequency encoder that returns the count the value had before the call
handle_new_category_freq_encoder_CountBefore(encoder_dict, value) ==
    LET str_value == StrValue(value)
        d == IF str_value \notin DOMAIN encoder_dict
             THEN DictPut(encoder_dict, str_value, 1)
             ELSE encoder_dict
    IN [code |-> DictGet(encoder_dict, str_value, 0), dict |-> d]

\* A frequency encoder that starts a new value at 0
handle_new_category_freq_encoder_FromZero(encoder_dict, value) ==
    LET str_value == StrValue(value)
        d == IF str_value \notin DOMAIN encoder_dict
             THEN DictPut(encoder_dict, str_value, 0)
             ELSE encoder_dict
    IN [code |-> d[str_value], dict |-> d]

\* A frequency encoder that counts every encoding: the count grows on each call
handle_new_category_freq_encoder_Counting(encoder_dict, value) ==
    LET str_value == StrValue(value)
        d == IF str_value \notin DOMAIN encoder_dict
             THEN DictPut(encoder_dict, str_value, 1)
             ELSE DictPut(encoder_dict, str_value, encoder_dict[str_value] + 1)
    IN [code |-> d[str_value], dict |-> d]

\* handle_new_category_freq_encoder: the count returned and the dict afterwards
handle_new_category_freq_encoder(encoder_dict, value) ==
    LET str_value == StrValue(value)
        d == IF str_value \notin DOMAIN encoder_dict
             THEN DictPut(encoder_dict, str_value, 1)
             ELSE encoder_dict
    IN [code |-> d[str_value], dict |-> d]

\* encode_categorical_features: every key of data_dict that has a label encoder
\* goes through it, else through its frequency encoder, else passes unchanged
encode_categorical_features(data_dict, label_encoders, freq_encoders) ==
    [encoded |->
        [key \in DOMAIN data_dict |->
            IF key \in DOMAIN label_encoders
            THEN handle_new_category_label_encoder(label_encoders[key], data_dict[key]).code
            ELSE IF key \in DOMAIN freq_encoders
                 THEN handle_new_category_freq_encoder(freq_encoders[key], data_dict[key]).code
                 ELSE data_dict[key]],
     label |->
        [key \in DOMAIN label_encoders |->
            IF key \in DOMAIN data_dict
            THEN handle_new_category_label_encoder(label_encoders[key], data_dict[key]).classes
            ELSE label_encoders[key]],
     freq |->
        [key \in DOMAIN freq_encoders |->
            IF key \in DOMAIN data_dict /\ key \notin DOMAIN label_encoders
            THEN handle_new_category_freq_encoder(freq_encoders[key], data_dict[key]).dict
            ELSE freq_encoders[key]]]

\* The categorical entries of prepare_global_features (the numeric entries pass
\* through encode_categorical_features unchanged and reach only the classifier)
prepare_global_features(transaction_obj, profile_obj) ==
    [PAYER_VPA        |-> OrDefault(profile_obj.upi_id, "Unknown"),
     BENEFICIARY_VPA  |-> OrDefault(transaction_obj.beneficiary_vpa, "Unknown"),
     INITIATION_MODE  |-> OrDefault(transaction_obj.initiation_mode, "00"),
     TRANSACTION_TYPE |-> OrDefault(transaction_obj.transaction_type, "P2P")]

\* encode_local_features, first loop: the label-encoded features
LocalCategorical(transaction_obj) ==
    [TRANSACTION_TYPE   |-> OrDefault(transaction_obj.transaction_type, "P2P"),
     DEVICE_ID          |-> OrDefault(transaction_obj.device_id, "Unknown"),
     PAYMENT_INSTRUMENT |-> OrDefault(transaction_obj.payment_instrument, "UPI"),
     COUNTRY            |-> OrDefault(transaction_obj.country, "Unknown"),
     CITY               |-> OrDefault(transaction_obj.city, "Unknown")]

\* encode_local_features, second loop: the frequency-encoded features
LocalFreq(transaction_obj) ==
    [BENEFICIARY_VPA |-> OrDefault(transaction_obj.beneficiary_vpa, "Unknown"),
     IP_ADDRESS      |-> OrDefault(transaction_obj.ip_address, "Unknown")]

\* encode_local_features: the encoded features and the local tables afterwards
encode_local_features(transaction_obj, label_encoders, freq_encoders) ==
    LET cat == LocalCategorical(transaction_obj)
        frq == LocalFreq(transaction_obj)
    IN [label |->
            [feature \in DOMAIN label_encoders |->
                IF feature \in DOMAIN cat
                THEN handle_new_category_label_encoder(
                         label_encoders[feature], cat[feature]).classes
                ELSE label_encoders[feature]],
        freq |->
            [feature \in DOMAIN freq_encoders |->
                IF feature \in DOMAIN frq
                THEN handle_new_category_freq_encoder(
                         freq_encoders[feature], frq[feature]).dict
                ELSE freq_encoders[feature]],
        features |->
            [feature \in (DOMAIN cat) \cup (DOMAIN frq) |->
                IF feature \in DOMAIN cat
                THEN IF feature \in DOMAIN label_encoders
                     THEN handle_new_category_label_encoder(
                              label_encoders[feature], cat[feature]).code
                     ELSE -1
                ELSE IF feature \in DOMAIN freq_encoders
                     THEN handle_new_category_freq_encoder(
                              freq_encoders[feature], frq[feature]).code
                     ELSE 0]]

-----------------------------------------------------------------------------
(* 4.2 Geo-distance, 4.3 User behaviour profiler *)

\* A coordinate is "set" for `a and b` only if it is neither None nor 0
Truthy(x) == x # NoNum /\ x # 0

\* haversine, in whole kilometres, on the places of the model: Delhi (28, 77)
\* and Mumbai (19, 72) are 1123 km apart, and a place on the equator (0, 9) is
\* 7860 km from Delhi and 7181 km from Mumbai
haversine(lat1, lon1, lat2, lon2) ==
    IF lat1 = lat2 /\ lon1 = lon2 THEN 0
    ELSE IF {lat1, lat2} = {28, 19} THEN 1123
    ELSE IF {lat1, lat2} = {28, 0} THEN 7860
    ELSE IF {lat1, lat2} = {19, 0} THEN 7181
    ELSE 1123

\* The p-th smallest element of a sequence (what sorting puts at 0-based index p)
SortedAt(values, p) ==
    CHOOSE v \in {values[i] : i \in 1..Len(values)} :
        /\ Cardinality({i \in 1..Len(values) : values[i] < v}) <= p
        /\ Cardinality({i \in 1..Len(values) : values[i] <= v}) > p

\* 100 * np.percentile(values, q), linear interpolation; values is not empty
Percentile100(values, q) ==
    LET n   == Len(values)
        pos == (n - 1) * q
        lo  == pos \div 100
        hi  == Min(lo + 1, n - 1)
        fr  == pos % 100
    IN 100 * SortedAt(values, lo) + fr * (SortedAt(values, hi) - SortedAt(values, lo))

\* 100 * (np.percentile(values, q) if values else 0)
PercentileOr0(values, q) == IF values = << >> THEN 0 ELSE Percentile100(values, q)

\* The (encoded) values of a sequence counted: a defaultdict(int) turned dict
CountCodes(codes) ==
    [c \in {codes[i] : i \in 1..Len(codes)} |->
        Cardinality({i \in 1..Len(codes) : codes[i] = c})]

\* Cold statistics whose thresholds are the default mean 5000 instead of 0
ColdStats_DefaultThresholds ==
    [amount_98_percentile |-> 0, amount_85_percentile |-> 0,
     amount_70_percentile |-> 0, amount_80_percentile |-> 0,
     amount_90_percentile |-> 500000, distance_85_percentile |-> 0,
     qr_threshold |-> 500000, device_id_counts |-> EmptyDict,
     vpa_counts |-> EmptyDict, ip_counts |-> EmptyDict]

\* What get_user_transaction_stats returns for a user without transactions,
\* and what run_fraud_pipeline uses without a db session
ColdStats ==
    [amount_98_percentile |-> 0, amount_85_percentile |-> 0,
     amount_70_percentile |-> 0, amount_80_percentile |-> 0,
     amount_90_percentile |-> 0, distance_85_percentile |-> 0,
     qr_threshold |-> 0, device_id_counts |-> EmptyDict,
     vpa_counts |-> EmptyDict, ip_counts |-> EmptyDict]

\* One turn of the loop `for txn in user_transactions: encode_local_features(txn)`:
\* e is what encode_local_features returned for the transaction
CollectEncoded(acc, e) ==
    [encoded |-> Append(acc.encoded, e.features), label |-> e.label, freq |-> e.freq]

\* The whole loop: the encoded features of every transaction, in order, and the
\* tables afterwards; acc holds the turns done so far
RECURSIVE EncodeHistory(_, _)
EncodeHistory(user_transactions, acc) ==
    IF user_transactions = << >>
    THEN acc
    ELSE EncodeHistory(Tail(user_transactions),
                       CollectEncoded(acc, encode_local_features(
                           Head(user_transactions), acc.label, acc.freq)))

\* The distances between each transaction and the one before it in the list
RECURSIVE Distances(_)
Distances(user_transactions) ==
    IF Len(user_transactions) < 2 THEN << >>
    ELSE LET n        == Len(user_transactions)
             txn      == user_transactions[n]
             prev_txn == user_transactions[n - 1]
             rest     == Distances(SubSeq(user_transactions, 1, n - 1))
         IN IF /\ Truthy(txn.latitude) /\ Truthy(txn.longitude)
               /\ Truthy(prev_txn.latitude) /\ Truthy(prev_txn.longitude)
            THEN Append(rest, haversine(prev_txn.latitude, prev_txn.longitude,
                                        txn.latitude, txn.longitude))
            ELSE rest

\* The list `distances` once lines 319-320 have run
DistancesOrZero(user_transactions) ==
    IF Distances(user_transactions) = << >>
    THEN << 0 >>
    ELSE Distances(user_transactions)

\* The subsequence of the amounts whose transaction satisfies keep[i]
RECURSIVE SelectAmounts(_, _)
SelectAmounts(user_transactions, keep) ==
    IF user_transactions = << >> THEN << >>
    ELSE LET rest == SelectAmounts(Tail(user_transactions), Tail(keep))
         IN IF Head(keep) THEN << Head(user_transactions).amount >> \o rest ELSE rest

\* The dict get_user_transaction_stats returns for a user with transactions:
\* pass1 is the loop of lines 327-337, pass2 the loop of lines 341-344
UserStats(user_transactions, distances, pass1, pass2) ==
    LET n       == Len(user_transactions)
        amounts == [i \in 1..n |-> user_transactions[i].amount]
        qr_transactions ==
            SelectAmounts(user_transactions,
                          [i \in 1..n |-> pass2.encoded[i].PAYMENT_INSTRUMENT = 1])
    IN [amount_98_percentile |-> PercentileOr0(amounts, 98),
        amount_85_percentile |-> PercentileOr0(amounts, 85),
        amount_70_percentile |-> PercentileOr0(amounts, 70),
        amount_80_percentile |-> PercentileOr0(amounts, 80),
        amount_90_percentile |-> PercentileOr0(amounts, 90),
        distance_85_percentile |->
            PercentileOr0(IF distances = << >> THEN << 0 >> ELSE distances, 85),
        qr_threshold |-> IF qr_transactions # << >>
                         THEN Percentile100(qr_transactions, 90)
                         ELSE PercentileOr0(amounts, 90),
        device_id_counts |-> CountCodes([i \in 1..n |-> pass1.encoded[i].DEVICE_ID]),
        vpa_counts |-> CountCodes([i \in 1..n |-> pass1.encoded[i].BENEFICIARY_VPA]),
        ip_counts |-> CountCodes([i \in 1..n |-> pass1.encoded[i].IP_ADDRESS])]

\* The second loop over the transactions, after the first
SecondPass(user_transactions, pass1) ==
    EncodeHistory(user_transactions,
                  [encoded |-> << >>, label |-> pass1.label, freq |-> pass1.freq])

StatsAndTables(user_transactions, pass1, pass2) ==
    [label |-> pass2.label,
     freq |-> pass2.freq,
     stats |-> UserStats(user_transactions, Distances(user_transactions), pass1, pass2)]

StatsAfterFirstPass(user_transactions, pass1) ==
    StatsAndTables(user_transactions, pass1, SecondPass(user_transactions, pass1))

\* get_user_transaction_stats: the statistics and the local tables afterwards
get_user_transaction_stats(user_transactions, label_encoders, freq_encoders) ==
    IF user_transactions = << >>
    THEN [label |-> label_encoders, freq |-> freq_encoders, stats |-> ColdStats]
    ELSE StatsAfterFirstPass(
             user_transactions,
             EncodeHistory(user_transactions,
                           [encoded |-> << >>, label |-> label_encoders,
                            freq |-> freq_encoders]))

-----------------------------------------------------------------------------
(* 4.5 Layer B: heuristics *)

\* What the identity-verification service can do with one request:
\*   "exists"     status 200, data.account_exists true
\*   "not_exists" status 200, data.account_exists false
\*   "no_field"   status 200, a body without data.account_exists
\*   "non200"     another status code
\*   "exception"  requests.post or response.json() raises
UpiAnswers == {"exists", "not_exists", "no_field", "non200", "exception"}

\* response.status_code == 200
Status200(answer) == answer \in {"exists", "not_exists", "no_field"}

\* result.get('data', {}).get('account_exists', False)
AccountExists(answer) == answer = "exists"

\* A verify_upi_id that fails closed: invalid when the request raises
verify_upi_id_FailClosed(answer) ==
    IF answer = "exception" THEN FALSE
    ELSE IF Status200(answer) THEN AccountExists(answer)
         ELSE TRUE

\* verify_upi_id, given what the service did
verify_upi_id(answer) ==
    IF answer = "exception" THEN TRUE
    ELSE IF Status200(answer) THEN AccountExists(answer)
         ELSE TRUE

\* c.strip().lower() on the country names of the model
StripLower(c) ==
    CASE c = "India"   -> "india"
      [] c = " india " -> "india"
      [] c = "Unknown" -> "unknown"
      [] OTHER         -> c

LimitRule   == "Amount exceeds 95% of transaction limit"
CountryRule == "Transaction country differs from profile country"
UpiRule     == "Invalid UPI ID"

\* layer2_heuristics_check, rules 1 and 2
Layer2Rules12(transaction_obj, profile_obj) ==
    (IF /\ Truthy(profile_obj.transaction_limit)
        /\ 100 * transaction_obj.amount > 95 * profile_obj.transaction_limit
     THEN << LimitRule >> ELSE << >>)
    \o
    (IF /\ OrDefault(profile_obj.country, "") # ""
        /\ OrDefault(transaction_obj.country, "") # ""
        /\ StripLower(profile_obj.country) # StripLower(transaction_obj.country)
     THEN << CountryRule >> ELSE << >>)

\* Does layer2_heuristics_check call verify_upi_id?
CallsVerify(transaction_obj) == OrDefault(transaction_obj.beneficiary_vpa, "") # ""

\* layer2_heuristics_check, given the answer of the service (if it is asked)
layer2_heuristics_check(transaction_obj, profile_obj, answer) ==
    LET rules_triggered ==
            Layer2Rules12(transaction_obj, profile_obj)
            \o (IF CallsVerify(transaction_obj) /\ ~verify_upi_id(answer)
                THEN << UpiRule >> ELSE << >>)
    IN [rules_triggered |-> rules_triggered,
        is_suspicious   |-> Len(rules_triggered) > 0]

-----------------------------------------------------------------------------
(* 4.6 Layer C: behavioural rules *)

\* The object run_fraud_pipeline hands to Layer C: type('obj', (object,), {...})().
\* The transaction's fields and the encoded features are attributes of the new
\* class; the instance itself has an empty __dict__.
transaction_with_encoded(transaction_obj, encoded_features) ==
    [amount |-> transaction_obj.amount,
     class_attrs |-> encoded_features,
     instance_dict |-> EmptyDict]

\* Rule weights that are all the default of rule_weights.get(rule, 0.5)
RuleWeight_Default(rule) == 5

\* The weight of a rule, in tenths
RuleWeight(rule) ==
    CASE rule = "Extreme High Amount"          -> 10
      [] rule = "Night High Amount"            -> 7
      [] rule = "Geographic Distance + Amount" -> 8
      [] rule = "High Amount QR Transaction"   -> 6
      [] rule = "Multiple Rare Patterns"       -> 9
      [] OTHER                                 -> 5

AllRules == << "Extreme High Amount", "Night High Amount",
               "Geographic Distance + Amount", "High Amount QR Transaction",
               "Multiple Rare Patterns" >>

RECURSIVE SumWeights(_)
SumWeights(rules) ==
    IF rules = << >> THEN 0 ELSE RuleWeight(Head(rules)) + SumWeights(Tail(rules))

\* rule_based_layer3_predict; user_stats holds 100 * each percentile
rule_based_layer3_predict(obj, user_stats, distance_from_last) ==
    LET amount   == obj.amount
        \* {k: v for k, v in transaction_obj.__dict__.items() if not k.startswith('_')}
        features == obj.instance_dict
        rule1 == 100 * amount > user_stats.amount_98_percentile
        rule2 == /\ DictGet(features, "is_night", FALSE)
                 /\ 100 * amount > user_stats.amount_80_percentile
        rule3 == /\ 100 * distance_from_last > user_stats.distance_85_percentile
                 /\ 100 * amount > user_stats.amount_70_percentile
        rule4 == /\ DictGet(features, "PAYMENT_INSTRUMENT", -2) = 0
                 /\ 100 * amount > user_stats.qr_threshold
        encoded_device_id == DictGet(features, "DEVICE_ID", -1)
        encoded_vpa       == DictGet(features, "BENEFICIARY_VPA", 0)
        rare_device == DictGet(user_stats.device_id_counts, encoded_device_id, 0) <= 2
        rare_vpa    == DictGet(user_stats.vpa_counts, encoded_vpa, 0) <= 2
        moderate_amount == 100 * amount > user_stats.amount_80_percentile
        rule5 == rare_device /\ rare_vpa /\ moderate_amount
        rules_triggered ==
            (IF rule1 THEN << AllRules[1] >> ELSE << >>) \o
            (IF rule2 THEN << AllRules[2] >> ELSE << >>) \o
            (IF rule3 THEN << AllRules[3] >> ELSE << >>) \o
            (IF rule4 THEN << AllRules[4] >> ELSE << >>) \o
            (IF rule5 THEN << AllRules[5] >> ELSE << >>)
        total_weight        == SumWeights(rules_triggered)
        max_possible_weight == SumWeights(AllRules)
    IN [rules_triggered |-> rules_triggered,
        is_anomaly      |-> IF Len(rules_triggered) > 0 THEN 1 ELSE 0,
        \* total_weight / max_possible_weight, in 1/10000
        confidence      |-> (total_weight * 10000) \div max_possible_weight]

\* The Layer C result of a user with at most 10 transactions
EmptyLayer3 == [rules_triggered |-> << >>, is_anomaly |-> 0, confidence |-> 0]

-----------------------------------------------------------------------------
(* 4.4 Layer A, 4.7 Fusion, run_fraud_pipeline *)

\* The classifier raising instead of answering
Raises == -1

\* global_score = 0.5, the default of Layer A
DefaultGlobalScore == 5000

\* 0.4, the share of Layer B in the blended score
Layer2Score == 4000

\* A fusion that blends the three layers even when none of them triggered
FinalScore_AlwaysBlends(global_score, layer2_result, layer3_result) ==
    (global_score * 3) \div 10
    + (IF layer2_result.is_suspicious THEN Layer2Score ELSE 0)
    + (layer3_result.confidence * 3) \div 10

\* A fusion that adds the three layers up without their shares
FinalScore_Unweighted(global_score, layer2_result, layer3_result) ==
    IF layer2_result.is_suspicious \/ layer3_result.is_anomaly = 1
    THEN global_score
         + (IF layer2_result.is_suspicious THEN Layer2Score ELSE 0)
         + layer3_result.confidence
    ELSE global_score

\* final_score of the fusion step
FinalScore(global_score, layer2_result, layer3_result) ==
    IF layer2_result.is_suspicious \/ layer3_result.is_anomaly = 1
    THEN (global_score * 3) \div 10
         + (IF layer2_result.is_suspicious THEN Layer2Score ELSE 0)
         + (layer3_result.confidence * 3) \div 10
    ELSE global_score

\* A fusion that decides on the blended score alone
FinalPrediction_ScoreOnly(final_score, layer2_result, layer3_result) ==
    IF final_score > 5000 THEN 1 ELSE 0

\* final_prediction of the fusion step
FinalPrediction(final_score, layer2_result, layer3_result) ==
    IF \/ final_score > 5000
       \/ layer2_result.is_suspicious
       \/ layer3_result.is_anomaly = 1
    THEN 1 ELSE 0

\* The dict run_fraud_pipeline returns
Verdict(global_score, layer2_result, layer3_result) ==
    LET final_score == FinalScore(global_score, layer2_result, layer3_result) IN
    [rules_triggered |-> layer3_result.rules_triggered,
     global_score |-> global_score,
     final_score |-> final_score,
     kind |-> "verdict",
     layer2_score |-> IF layer2_result.is_suspicious THEN Layer2Score ELSE 0,
     layer2_rules_triggered |-> layer2_result.rules_triggered,
     layer3_score |-> layer3_result.confidence,
     local_layer_pred |-> layer3_result.is_anomaly,
     final_prediction |-> FinalPrediction(final_score, layer2_result, layer3_result)]

\* No verdict: the call has not returned, or it raised
NoVerdict(kind) ==
    [rules_triggered |-> << >>, global_score |-> 0, final_score |-> 0,
     kind |-> kind, layer2_score |-> 0, layer2_rules_triggered |-> << >>,
     layer3_score |-> 0, local_layer_pred |-> 0, final_prediction |-> 0]

\* distance_from_last of run_fraud_pipeline; last_location is the latitude and
\* longitude of the user's latest transaction, or << >> for None
DistanceFromLast(transaction_obj, last_location) ==
    IF /\ last_location # << >>
       /\ Truthy(transaction_obj.latitude) /\ Truthy(transaction_obj.longitude)
    THEN haversine(transaction_obj.latitude, transaction_obj.longitude,
                   last_location[1], last_location[2])
    ELSE 0

\* A Layer A that encodes the global features before it looks at global_model
AfterLayerA_EncodesFirst(transaction_obj, last_location, classifier, model, glabel, gfreq, st, enc) ==
    [user_stats |-> st.stats,
     distance_from_last |-> DistanceFromLast(transaction_obj, last_location),
     global_score |-> IF model # "None" THEN classifier ELSE DefaultGlobalScore,
     glabel |-> enc.label,
     gfreq  |-> enc.freq,
     raised |-> model # "None" /\ classifier = Raises,
     llabel |-> st.label, lfreq |-> st.freq]

\* What run_fraud_pipeline holds when Layer A is done: st is what
\* get_user_transaction_stats returned, enc what encode_categorical_features did
AfterLayerA(transaction_obj, last_location, classifier, model, glabel, gfreq, st, enc) ==
    [user_stats |-> st.stats,
     distance_from_last |-> DistanceFromLast(transaction_obj, last_location),
     global_score |-> IF model # "None" THEN classifier ELSE DefaultGlobalScore,
     glabel |-> IF model # "None" THEN enc.label ELSE glabel,
     gfreq  |-> IF model # "None" THEN enc.freq ELSE gfreq,
     raised |-> model # "None" /\ classifier = Raises,
     llabel |-> st.label, lfreq |-> st.freq]

\* run_fraud_pipeline up to the call of the identity-verification service:
\* the statistics (st is what get_user_transaction_stats returns for the rows
\* of the table; db_ok = FALSE is a query that raises), the distance and
\* Layer A (classifier is what predict_proba does: a score or Raises).
PipelineStart(transaction_obj, profile_obj, st, last_location, db_ok, classifier, model, glabel, gfreq, llabel, lfreq) ==
    IF ~db_ok
    THEN [user_stats |-> ColdStats, distance_from_last |-> 0, global_score |-> 0,
          glabel |-> glabel, gfreq |-> gfreq, raised |-> TRUE,
          llabel |-> llabel, lfreq |-> lfreq]
    ELSE AfterLayerA(transaction_obj, last_location, classifier, model, glabel, gfreq,
                     st,
                     encode_categorical_features(
                         prepare_global_features(transaction_obj, profile_obj),
                         glabel, gfreq))

\* Layer C on the encoded transaction; e is what encode_local_features returned
Layer3Encoded(transaction_obj, user_stats, distance_from_last, e) ==
    [llabel |-> e.label,
     lfreq |-> e.freq,
     result |-> rule_based_layer3_predict(
                    transaction_with_encoded(transaction_obj, e.features),
                    user_stats, distance_from_last)]

\* Layer C as run_fraud_pipeline calls it: the result and the local tables afterwards
Layer3(transaction_obj, txn_count, user_stats, distance_from_last, llabel, lfreq) ==
    IF txn_count > 10
    THEN Layer3Encoded(transaction_obj, user_stats, distance_from_last,
                       encode_local_features(transaction_obj, llabel, lfreq))
    ELSE [llabel |-> llabel, lfreq |-> lfreq, result |-> EmptyLayer3]

\* The fusion step on the results of the three layers
Fuse(global_score, layer2_result, l3) ==
    [verdict |-> Verdict(global_score, layer2_result, l3.result),
     llabel |-> l3.llabel, lfreq |-> l3.lfreq]

\* run_fraud_pipeline from Layer B on, given the answer of the service
PipelineFinish(transaction_obj, profile_obj, txn_count, user_stats, distance_from_last, global_score, answer, llabel, lfreq) ==
    Fuse(global_score,
         layer2_heuristics_check(transaction_obj, profile_obj, answer),
         Layer3(transaction_obj, txn_count, user_stats, distance_from_last,
                llabel, lfreq))

-----------------------------------------------------------------------------
(* The inputs of the model *)

\* What calculate_derived_columns finds for the client's address: a place, or
\* the fallback of a failed lookup
Places ==
    { [country |-> "India", city |-> "Delhi", latitude |-> 28, longitude |-> 77],
      [country |-> "India", city |-> "Mumbai", latitude |-> 19, longitude |-> 72],
      [country |-> "Unknown", city |-> "Unknown", latitude |-> NoNum, longitude |-> NoNum] }

Delhi  == [country |-> "India", city |-> "Delhi", latitude |-> 28, longitude |-> 77]
Mumbai == [country |-> "India", city |-> "Mumbai", latitude |-> 19, longitude |-> 72]

\* device_id and ip_address of a request: a client seen before, or a new one
Clients == { [device_id |-> "dev1", ip_address |-> "10.0.0.1"],
             [device_id |-> "dev9", ip_address |-> "10.0.0.9"] }

Known == [device_id |-> "dev1", ip_address |-> "10.0.0.1"]

Amounts          == {100, 1000, 1900, 50000}
TransactionTypes == {"P2P", "Bill"}
PaymentMethods   == {"UPI", "Card"}
RecipientUpiIds  == {"", "friend@upi", "new@upi"}

\* A usual request: a small UPI payment to a friend, by day, from Delhi
UsualRequest ==
    [amount |-> 100, transaction_type |-> "P2P", is_night |-> FALSE,
     payment_method |-> "UPI", recipient_upi_id |-> "friend@upi", client |-> Known,
     place |-> Delhi]

\* The requests of the model: the usual one, varied in what Layer B reads,
\* or in what Layer C reads, or in its transaction type
Requests ==
    { [UsualRequest EXCEPT !.amount = a, !.recipient_upi_id = r, !.place = p] :
        a \in Amounts, r \in RecipientUpiIds, p \in Places }
    \cup
    { [UsualRequest EXCEPT !.amount = a, !.payment_method = m, !.client = c,
                           !.is_night = night] :
        a \in Amounts, m \in PaymentMethods, c \in Clients, night \in BOOLEAN }
    \cup
    { [UsualRequest EXCEPT !.transaction_type = t, !.place = p] :
        t \in TransactionTypes, p \in Places }

\* predict_proba(X)[0][1]: 0, 0.5, 0.501, 1 or an exception
ClassifierAnswers == {0, 5000, 5010, 10000, Raises}

\* random.randint(100000, 999999), two of its values
OtpCodes == {111111, 222222}

\* Transaction(...) as both endpoints build it
NewTransaction(amount, transaction_type, payment_method, recipient_upi_id, client, place, is_night) ==
    [amount |-> amount,
     beneficiary_vpa |-> recipient_upi_id,
     initiation_mode |-> "Default",
     transaction_type |-> transaction_type,
     device_id |-> client.device_id,
     payment_instrument |-> payment_method,
     country |-> place.country,
     city |-> place.city,
     ip_address |-> client.ip_address,
     latitude |-> place.latitude,
     longitude |-> place.longitude,
     is_night |-> is_night,
     is_fraud |-> FALSE]

\* A row without values, for a call that has no transaction yet
NoTransaction ==
    NewTransaction(0, None, None, None,
                   [device_id |-> None, ip_address |-> None],
                   [country |-> None, city |-> None,
                    latitude |-> NoNum, longitude |-> NoNum], FALSE)

\* The i-th row the user has when the process starts: small UPI payments to a
\* friend from Delhi, every fourth one a larger card payment from Mumbai, each
\* of these 1000 rupees more than the one before
PriorTransaction(i) ==
    IF i % 4 = 0
    THEN NewTransaction(1000 * (i \div 4), "P2M", "Card", "shop@upi",
                        [device_id |-> "dev1", ip_address |-> "10.0.0.1"], Mumbai, FALSE)
    ELSE NewTransaction(100, "P2P", "UPI", "friend@upi",
                        [device_id |-> "dev1", ip_address |-> "10.0.0.1"], Delhi, FALSE)

\* The numbers of rows the user can have when the process starts
PriorCounts == {0} \cup { n \in 0..MaxPrior : n >= MaxPrior - 2 }

\* The encoder artifacts as pickled at training time
GlobalLabelArtifact ==
    [INITIATION_MODE |-> << "Default" >>, TRANSACTION_TYPE |-> << "P2M", "P2P" >>]

GlobalFreqArtifact ==
    [PAYER_VPA |-> [v \in {"payer@upi"} |-> 5],
     BENEFICIARY_VPA |-> [v \in {"friend@upi"} |-> 3]]

LocalLabelArtifact ==
    [TRANSACTION_TYPE |-> << "P2M", "P2P" >>,
     DEVICE_ID |-> << "dev1" >>,
     PAYMENT_INSTRUMENT |-> << "Card", "UPI" >>,
     COUNTRY |-> << "India" >>,
     CITY |-> NoClasses]

LocalFreqArtifact ==
    [BENEFICIARY_VPA |-> [v \in {"friend@upi"} |-> 3],
     IP_ADDRESS |-> [v \in {"10.0.0.1"} |-> 2]]

-----------------------------------------------------------------------------
(* The state when the process starts *)

IdleCall ==
    [txn |-> NoTransaction, answer |-> "none", user_stats |-> ColdStats,
     distance_from_last |-> 0, global_score |-> 0, verdict |-> NoVerdict("none"),
     db_ok |-> TRUE, txn_count |-> 0,
     pc |-> "idle", endpoint |-> "none", prior |-> 0,
     service |-> "none", response |-> "none"]

\* The two requests that run in the thread pool at the same time
Threads == {1, 2}

\* A request that is not inside an encoder call
IdleThread ==
    [value |-> None, feature |-> "none", kind |-> "none", pc |-> "idle",
     was_new |-> FALSE, new_id |-> 0, tmp |-> << >>, ret |-> 0, calls |-> 0]

InitThreads == [t \in Threads |-> IdleThread]

\* No encoder call made yet
NoEncCall ==
    [value |-> None, code |-> 0, feature |-> "none", kind |-> "none",
     was_new |-> FALSE, changed |-> FALSE]

InitEncLog == [n |-> 0, last |-> NoEncCall, prev |-> NoEncCall]

\* No function called on its own yet
NoFn == [name |-> "none"]

\* A request to /verify_otp that has not started
IdleVerify == [pc |-> "idle", otp |-> 0, matched |-> 0, deleted |-> 0]

\* No OTP verification request made yet
InitVer == [t \in Threads |-> IdleVerify]

\* No request to /auth/step-up-verify made yet
NoStepUp ==
    [otp |-> None, matched |-> FALSE, action |-> "none", email |-> None,
     outcome |-> "none", issued_at |-> 0, at |-> 0]

\* Nothing has happened: no function called, no OTP issued, no request made
InitRest ==
    /\ fn = NoFn
    /\ now = 0
    /\ otp_issued = EmptyDict
    /\ ver = InitVer
    /\ stepup = NoStepUp

\* The module is imported: each artifact is loaded, or missing (FileNotFoundError)
InitProgram ==
    /\ global_model \in {"loaded", "None"}
    /\ \E loaded \in BOOLEAN :
        /\ global_label_encoders = IF loaded THEN GlobalLabelArtifact ELSE EmptyDict
        /\ global_freq_encoders  = IF loaded THEN GlobalFreqArtifact ELSE EmptyDict
        /\ local_label_encoders  = IF loaded THEN LocalLabelArtifact ELSE EmptyDict
        /\ local_freq_encoders   = IF loaded THEN LocalFreqArtifact ELSE EmptyDict
    /\ otp_store = EmptyDict

Init ==
    /\ InitProgram
    /\ \E n \in PriorCounts : db = [i \in 1..n |-> PriorTransaction(i)]
    /\ \E limit \in {NoNum, 0, 10000} :
        profile = [upi_id |-> "payer@upi", country |-> "India",
                   transaction_limit |-> limit]
    /\ call = IdleCall
    /\ thr = InitThreads
    /\ enc_log = InitEncLog
    /\ InitRest

-----------------------------------------------------------------------------
(* The scoring endpoints *)

\* The end of a scoring request, once run_fraud_pipeline has returned `verdict`:
\* what each endpoint does with it
Respond(c, verdict, rows, llabel, lfreq) ==
    /\ local_label_encoders' = llabel
    /\ local_freq_encoders' = lfreq
    /\ IF c.endpoint = "create"
       THEN \* new_txn.is_fraud = bool(result["final_prediction"]); db.commit()
            /\ db' = [rows EXCEPT ![Len(rows)].is_fraud = (verdict.final_prediction = 1)]
            /\ IF verdict.final_prediction = 1
               THEN \* the OTP is stored, then profile.email raises AttributeError
                    \E otp \in OtpCodes :
                        /\ otp_store' = DictPut(otp_store, profile.upi_id, otp)
                        /\ otp_issued' = DictPut(otp_issued, profile.upi_id,
                                                  [at |-> now, row |-> Len(rows)])
                        /\ call' = [c EXCEPT !.pc = "done", !.verdict = verdict,
                                             !.response = "error500"]
               ELSE /\ UNCHANGED << otp_store, otp_issued >>
                    /\ call' = [c EXCEPT !.pc = "done", !.verdict = verdict,
                                         !.response = "verdict"]
       ELSE /\ UNCHANGED << otp_store, otp_issued >>
            /\ IF verdict.final_prediction = 1
               THEN \* not saved: the page asks for step-up verification
                    /\ db' = rows
                    /\ call' = [c EXCEPT !.pc = "done", !.verdict = verdict,
                                         !.response = "requires_verification"]
               ELSE /\ db' = Append(rows, [c.txn EXCEPT !.is_fraud = FALSE])
                    /\ call' = [c EXCEPT !.pc = "done", !.verdict = verdict,
                                         !.response = "approved"]

\* A scoring request once run_fraud_pipeline has reached the identity-verification
\* call (start is what it holds there): it raised, it waits, or it is finished
Continue(c, rows, start) ==
    /\ global_label_encoders' = start.glabel
    /\ global_freq_encoders' = start.gfreq
    /\ IF start.raised
       THEN /\ call' = [c EXCEPT !.pc = "done", !.verdict = NoVerdict("raised"),
                                 !.response = "error500"]
            /\ db' = rows
            /\ local_label_encoders' = start.llabel
            /\ local_freq_encoders' = start.lfreq
            /\ UNCHANGED << otp_store, otp_issued >>
       ELSE IF CallsVerify(c.txn)
       THEN \* requests.post is called: the service will answer, or never does
            /\ \E service \in {"up", "silent"} :
                call' = [c EXCEPT !.pc = "verifying", !.service = service,
                                 !.user_stats = start.user_stats,
                                 !.distance_from_last = start.distance_from_last,
                                 !.global_score = start.global_score]
            /\ db' = rows
            /\ local_label_encoders' = start.llabel
            /\ local_freq_encoders' = start.lfreq
            /\ UNCHANGED << otp_store, otp_issued >>
       ELSE \E fin \in { PipelineFinish(c.txn, profile, c.txn_count, start.user_stats,
                                        start.distance_from_last, start.global_score,
                                        "none", start.llabel, start.lfreq) } :
                Respond([c EXCEPT !.user_stats = start.user_stats,
                                  !.distance_from_last = start.distance_from_last,
                                  !.global_score = start.global_score],
                        fin.verdict, rows, fin.llabel, fin.lfreq)

\* The latitude and longitude of the user's latest transaction, if it has both
LastTransactionLocation(rows) ==
    IF rows # << >> /\ Truthy(rows[Len(rows)].latitude)
                    /\ Truthy(rows[Len(rows)].longitude)
    THEN << rows[Len(rows)].latitude, rows[Len(rows)].longitude >>
    ELSE << >>

\* A scoring request from its start to the identity-verification call, or to
\* its end when the pipeline raises or does not call the service.
\* POST /transaction/ saves the row before it counts and scores (rows).
Score(endpoint, new_txn) ==
    /\ call.pc = "idle"
    /\ UNCHANGED << global_model, profile, thr, enc_log, fn, now, ver, stepup >>
    /\ \E rows \in { IF endpoint = "create" THEN Append(db, new_txn) ELSE db } :
       \E st \in { get_user_transaction_stats(rows, local_label_encoders,
                                              local_freq_encoders) } :
       \E classifier \in ClassifierAnswers, db_ok \in BOOLEAN :
       \E start \in { PipelineStart(new_txn, profile, st, LastTransactionLocation(db),
                                    db_ok, classifier, global_model,
                                    global_label_encoders, global_freq_encoders,
                                    local_label_encoders, local_freq_encoders) } :
           Continue([IdleCall EXCEPT !.endpoint = endpoint, !.txn = new_txn,
                                     !.prior = Len(db), !.txn_count = Len(rows),
                                     !.db_ok = db_ok],
                    rows, start)

\* POST /transaction/
create_and_predict_transaction ==
    \E r \in Requests :
        Score("create",
              NewTransaction(r.amount, r.transaction_type, r.payment_method,
                             r.recipient_upi_id, r.client, r.place, r.is_night))

\* POST /transaction/process
process_transaction ==
    \E r \in Requests :
        Score("process",
              NewTransaction(r.amount, r.transaction_type, r.payment_method,
                             r.recipient_upi_id, r.client, r.place, r.is_night))

\* requests.post returns or raises: verify_upi_id ends, and the request with it
VerifyAnswers ==
    /\ call.pc = "verifying"
    /\ call.service = "up"
    /\ UNCHANGED << global_model, global_label_encoders, global_freq_encoders,
                    profile, thr, enc_log, fn, now, ver, stepup >>
    /\ \E answer \in UpiAnswers :
       \E fin \in { PipelineFinish(call.txn, profile, call.txn_count, call.user_stats,
                                   call.distance_from_last, call.global_score,
                                   answer, local_label_encoders, local_freq_encoders) } :
           Respond([call EXCEPT !.answer = answer], fin.verdict, db,
                   fin.llabel, fin.lfreq)

Next ==
    \/ create_and_predict_transaction
    \/ process_transaction
    \/ VerifyAnswers

Spec == Init /\ [][Next]_vars

-----------------------------------------------------------------------------
(* Encoder calls made one after the other (4.1) *)

\* The values a feature of the local tables is asked to encode
EncValues(feature) ==
    CASE feature = "DEVICE_ID"          -> {"dev1", "dev8", "dev9", None}
      [] feature = "PAYMENT_INSTRUMENT" -> {"UPI", "QR"}
      [] feature = "CITY"               -> {"Delhi", "Mumbai"}
      [] feature = "BENEFICIARY_VPA"    -> {"friend@upi", "new@upi", None}
      [] feature = "IP_ADDRESS"         -> {"10.0.0.1", "10.0.0.8", "10.0.0.9"}

LabelFeatures == {"DEVICE_ID", "PAYMENT_INSTRUMENT", "CITY"}
FreqFeatures  == {"BENEFICIARY_VPA", "IP_ADDRESS"}

\* Is the value known to the label encoder?
InClasses(classes, value) == classes # NoClasses /\ InSeq(classes, StrValue(value))

\* The artifacts are loaded; nothing else is looked at
InitEnc ==
    /\ global_model = "loaded"
    /\ global_label_encoders = GlobalLabelArtifact
    /\ global_freq_encoders = GlobalFreqArtifact
    /\ local_label_encoders = LocalLabelArtifact
    /\ local_freq_encoders = LocalFreqArtifact
    /\ otp_store = EmptyDict
    /\ db = << >>
    /\ profile = [upi_id |-> "payer@upi", country |-> "India",
                  transaction_limit |-> NoNum]
    /\ call = IdleCall
    /\ thr = InitThreads
    /\ enc_log = InitEncLog
    /\ InitRest

\* One call of handle_new_category_label_encoder on a local label encoder
EncodeLabel ==
    /\ enc_log.n < MaxEncCalls
    /\ \E feature \in LabelFeatures : \E value \in EncValues(feature) :
       \E r \in { handle_new_category_label_encoder(
                      local_label_encoders[feature], value) } :
        /\ local_label_encoders' = [local_label_encoders EXCEPT ![feature] = r.classes]
        /\ enc_log' = [n |-> enc_log.n + 1, last |-> [value |-> value, code |-> r.code,
                                 feature |-> feature,
                                 kind |-> "label",
                                 was_new |-> ~InClasses(local_label_encoders[feature],
                                                        value),
                                 changed |-> r.classes # local_label_encoders[feature]],
                       prev |-> enc_log.last]
    /\ UNCHANGED << global_model, global_label_encoders, global_freq_encoders,
                    local_freq_encoders, db, profile, call, otp_store, thr,
                    fn, now, otp_issued, ver, stepup >>

\* One call of handle_new_category_freq_encoder on a local frequency encoder
EncodeFreq ==
    /\ enc_log.n < MaxEncCalls
    /\ \E feature \in FreqFeatures : \E value \in EncValues(feature) :
       \E r \in { handle_new_category_freq_encoder(
                      local_freq_encoders[feature], value) } :
        /\ local_freq_encoders' = [local_freq_encoders EXCEPT ![feature] = r.dict]
        /\ enc_log' = [n |-> enc_log.n + 1, last |-> [value |-> value, code |-> r.code,
                                 feature |-> feature,
                                 kind |-> "freq",
                                 was_new |-> StrValue(value)
                                               \notin DOMAIN local_freq_encoders[feature],
                                 changed |-> r.dict # local_freq_encoders[feature]],
                       prev |-> enc_log.last]
    /\ UNCHANGED << global_model, global_label_encoders, global_freq_encoders,
                    local_label_encoders, db, profile, call, otp_store, thr,
                    fn, now, otp_issued, ver, stepup >>

NextEnc == EncodeLabel \/ EncodeFreq

SpecEnc == InitEnc /\ [][NextEnc]_vars

\* C6: encoding the same never-before-seen value twice in a row returns the
\* same code both times, and the second call leaves the table unchanged, for
\* the label encoder and for the frequency encoder.
C6_IdempotentOnNewValues ==
    (/\ enc_log.n >= 2
     /\ enc_log.prev.was_new
     /\ enc_log.last.kind = enc_log.prev.kind
     /\ enc_log.last.feature = enc_log.prev.feature
     /\ enc_log.last.value = enc_log.prev.value)
        => /\ enc_log.last.code = enc_log.prev.code
           /\ ~enc_log.last.changed

\* C6, witness: a new value was frequency-encoded twice in a row and got the
\* count 1 both times
C6_Witness ==
    /\ enc_log.n >= 2
    /\ enc_log.prev.was_new /\ enc_log.prev.kind = "freq"
    /\ enc_log.last.kind = "freq"
    /\ enc_log.last.feature = enc_log.prev.feature
    /\ enc_log.last.value = enc_log.prev.value
    /\ enc_log.last.code = 1 /\ enc_log.prev.code = 1

\* C16: handle_new_category_label_encoder returns the existing index of a value
\* that is in the class list and leaves the list unchanged; it appends a value
\* that is not in the list as the last class and returns the class count before
\* the append; it never raises.
C16_LabelEncoderContract ==
    [][(enc_log'.n = enc_log.n + 1 /\ enc_log'.last.kind = "label") =>
        LET f      == enc_log'.last.feature
            v      == StrValue(enc_log'.last.value)
            code   == enc_log'.last.code
            before == IF local_label_encoders[f] = NoClasses
                      THEN << >> ELSE local_label_encoders[f]
            after  == local_label_encoders'[f]
        IN /\ code >= 0
           /\ \A g \in DOMAIN local_label_encoders \ {f} :
                 local_label_encoders'[g] = local_label_encoders[g]
           /\ IF InSeq(before, v)
              THEN after = before /\ before[code + 1] = v
              ELSE after = Append(before, v) /\ code = Len(before)]_vars

\* C16, witness: a value new to a class list that was not empty has been
\* appended as its last class and was given the class count before the append
C16_Witness ==
    /\ enc_log.last.kind = "label" /\ enc_log.last.was_new
    /\ enc_log.last.code >= 1
    /\ Len(local_label_encoders[enc_log.last.feature]) = enc_log.last.code + 1
    /\ local_label_encoders[enc_log.last.feature][enc_log.last.code + 1]
          = StrValue(enc_log.last.value)

\* C17: handle_new_category_freq_encoder inserts an absent value with count 1
\* and returns 1; for a value that is present it returns the stored count and
\* leaves the whole table unchanged.
C17_FreqEncoderContract ==
    [][(enc_log'.n = enc_log.n + 1 /\ enc_log'.last.kind = "freq") =>
        LET f      == enc_log'.last.feature
            v      == StrValue(enc_log'.last.value)
            code   == enc_log'.last.code
            before == local_freq_encoders[f]
            after  == local_freq_encoders'[f]
        IN /\ \A g \in DOMAIN local_freq_encoders \ {f} :
                 local_freq_encoders'[g] = local_freq_encoders[g]
           /\ IF v \in DOMAIN before
              THEN after = before /\ code = before[v]
              ELSE /\ code = 1
                   /\ DOMAIN after = DOMAIN before \cup {v}
                   /\ after[v] = 1
                   /\ \A k \in DOMAIN before : after[k] = before[k]]_vars

\* C17, witness: a value that was in the table with count 3 has been encoded:
\* 3 was returned and the table is as before; and a new value has been given 1
C17_Witness ==
    /\ enc_log.n >= 2
    /\ enc_log.prev.kind = "freq" /\ enc_log.prev.was_new /\ enc_log.prev.code = 1
    /\ enc_log.last.kind = "freq" /\ ~enc_log.last.was_new
    /\ enc_log.last.code = 3 /\ ~enc_log.last.changed

-----------------------------------------------------------------------------
(* Encoder calls of two requests running at the same time (5) *)

\* The features whose tables the two requests share
SharedLabelFeatures == {"DEVICE_ID", "CITY"}
SharedFreqFeatures  == {"IP_ADDRESS"}

InitConc ==
    /\ global_model = "loaded"
    /\ global_label_encoders = GlobalLabelArtifact
    /\ global_freq_encoders = GlobalFreqArtifact
    /\ local_label_encoders = LocalLabelArtifact
    /\ local_freq_encoders = LocalFreqArtifact
    /\ otp_store = EmptyDict
    /\ db = << >>
    /\ profile = [upi_id |-> "payer@upi", country |-> "India",
                  transaction_limit |-> NoNum]
    /\ call = IdleCall
    /\ thr = InitThreads
    /\ enc_log = InitEncLog
    /\ InitRest

\* What a step of a request leaves alone besides the tables and the threads
ThreadFrame ==
    UNCHANGED << global_model, global_label_encoders, global_freq_encoders,
                 db, profile, call, otp_store, enc_log, fn, now, otp_issued, ver, stepup >>

\* The request t moves to pc with some of its locals changed
Goto(t, next) == thr' = [thr EXCEPT ![t] = next]

\* A request enters handle_new_category_label_encoder
CallLabelEncoder ==
    /\ \E t \in Threads : \E feature \in SharedLabelFeatures :
       \E value \in EncValues(feature) :
        /\ thr[t].pc \in {"idle", "returned"}
        /\ thr[t].calls < MaxThreadCalls
        /\ Goto(t, [value |-> StrValue(value), feature |-> feature, kind |-> "label",
                    pc |-> "hasattr",
                    was_new |-> ~InClasses(local_label_encoders[feature], value),
                    new_id |-> 0, tmp |-> << >>, ret |-> 0,
                    calls |-> thr[t].calls + 1])
    /\ UNCHANGED << local_label_encoders, local_freq_encoders >>
    /\ ThreadFrame

\* A request enters handle_new_category_freq_encoder
CallFreqEncoder ==
    /\ \E t \in Threads : \E feature \in SharedFreqFeatures :
       \E value \in EncValues(feature) :
        /\ thr[t].pc \in {"idle", "returned"}
        /\ thr[t].calls < MaxThreadCalls
        /\ Goto(t, [value |-> StrValue(value), feature |-> feature, kind |-> "freq",
                    pc |-> "freq_contains",
                    was_new |-> StrValue(value)
                                  \notin DOMAIN local_freq_encoders[feature],
                    new_id |-> 0, tmp |-> << >>, ret |-> 0,
                    calls |-> thr[t].calls + 1])
    /\ UNCHANGED << local_label_encoders, local_freq_encoders >>
    /\ ThreadFrame

\* if not hasattr(encoder, 'classes_')
LabelHasattr ==
    /\ \E t \in Threads :
        /\ thr[t].pc = "hasattr"
        /\ Goto(t, [thr[t] EXCEPT !.pc =
                      IF local_label_encoders[thr[t].feature] = NoClasses
                      THEN "init" ELSE "contains"])
    /\ UNCHANGED << local_label_encoders, local_freq_encoders >>
    /\ ThreadFrame

\* encoder.classes_ = np.array([str_value]); return 0
LabelInit ==
    /\ \E t \in Threads :
        /\ thr[t].pc = "init"
        /\ local_label_encoders' =
              [local_label_encoders EXCEPT ![thr[t].feature] = << thr[t].value >>]
        /\ Goto(t, [thr[t] EXCEPT !.pc = "returned", !.ret = 0])
    /\ UNCHANGED local_freq_encoders
    /\ ThreadFrame

\* if str_value in encoder.classes_
LabelContains ==
    /\ \E t \in Threads :
        /\ thr[t].pc = "contains"
        /\ Goto(t, [thr[t] EXCEPT !.pc =
                      IF InSeq(local_label_encoders[thr[t].feature], thr[t].value)
                      THEN "transform" ELSE "len"])
    /\ UNCHANGED << local_label_encoders, local_freq_encoders >>
    /\ ThreadFrame

\* return encoder.transform([str_value])[0]: the position of the value in the
\* list as it is now; any of its positions when the list holds it twice; an
\* exception when the list does not hold it any more
LabelTransform ==
    /\ \E t \in Threads :
        /\ thr[t].pc = "transform"
        /\ LET classes == local_label_encoders[thr[t].feature] IN
           IF InSeq(classes, thr[t].value)
           THEN \E i \in 1..Len(classes) :
                   /\ classes[i] = thr[t].value
                   /\ Goto(t, [thr[t] EXCEPT !.pc = "returned", !.ret = i - 1])
           ELSE Goto(t, [thr[t] EXCEPT !.pc = "returned", !.ret = Raises])
    /\ UNCHANGED << local_label_encoders, local_freq_encoders >>
    /\ ThreadFrame

\* new_id = len(encoder.classes_)
LabelLen ==
    /\ \E t \in Threads :
        /\ thr[t].pc = "len"
        /\ Goto(t, [thr[t] EXCEPT !.pc = "append",
                       !.new_id = Len(local_label_encoders[thr[t].feature])])
    /\ UNCHANGED << local_label_encoders, local_freq_encoders >>
    /\ ThreadFrame

\* np.append(encoder.classes_, str_value): a new array from the list as it is now
LabelAppend ==
    /\ \E t \in Threads :
        /\ thr[t].pc = "append"
        /\ Goto(t, [thr[t] EXCEPT !.pc = "store",
                       !.tmp = Append(local_label_encoders[thr[t].feature],
                                      thr[t].value)])
    /\ UNCHANGED << local_label_encoders, local_freq_encoders >>
    /\ ThreadFrame

\* encoder.classes_ = <the new array>; return new_id
LabelStore ==
    /\ \E t \in Threads :
        /\ thr[t].pc = "store"
        /\ local_label_encoders' =
              [local_label_encoders EXCEPT ![thr[t].feature] = thr[t].tmp]
        /\ Goto(t, [thr[t] EXCEPT !.pc = "returned", !.ret = thr[t].new_id,
                                  !.tmp = << >>])
    /\ UNCHANGED local_freq_encoders
    /\ ThreadFrame

\* if str_value not in encoder_dict
FreqContains ==
    /\ \E t \in Threads :
        /\ thr[t].pc = "freq_contains"
        /\ Goto(t, [thr[t] EXCEPT !.pc =
                      IF thr[t].value \notin DOMAIN local_freq_encoders[thr[t].feature]
                      THEN "freq_insert" ELSE "freq_return"])
    /\ UNCHANGED << local_label_encoders, local_freq_encoders >>
    /\ ThreadFrame

\* encoder_dict[str_value] = 1
FreqInsert ==
    /\ \E t \in Threads :
        /\ thr[t].pc = "freq_insert"
        /\ local_freq_encoders' =
              [local_freq_encoders EXCEPT ![thr[t].feature] =
                  DictPut(local_freq_encoders[thr[t].feature], thr[t].value, 1)]
        /\ Goto(t, [thr[t] EXCEPT !.pc = "freq_return"])
    /\ UNCHANGED local_label_encoders
    /\ ThreadFrame

\* return encoder_dict[str_value]
FreqReturn ==
    /\ \E t \in Threads :
        /\ thr[t].pc = "freq_return"
        /\ Goto(t, [thr[t] EXCEPT !.pc = "returned",
                       !.ret = local_freq_encoders[thr[t].feature][thr[t].value]])
    /\ UNCHANGED << local_label_encoders, local_freq_encoders >>
    /\ ThreadFrame

NextConc ==
    \/ CallLabelEncoder
    \/ CallFreqEncoder
    \/ LabelHasattr
    \/ LabelInit
    \/ LabelContains
    \/ LabelTransform
    \/ LabelLen
    \/ LabelAppend
    \/ LabelStore
    \/ FreqContains
    \/ FreqInsert
    \/ FreqReturn

SpecConc == InitConc /\ [][NextConc]_vars

\* Both requests have returned from a call on the same table
BothReturned(kind) ==
    /\ \A t \in Threads : thr[t].pc = "returned" /\ thr[t].kind = kind
    /\ thr[1].feature = thr[2].feature

\* Both requests were given a value that was not in the table when they called
BothNew == \A t \in Threads : thr[t].was_new /\ thr[t].calls = 1

\* How many times the value is in the class list
Occurrences(classes, v) == Cardinality({ i \in 1..Len(classes) : classes[i] = v })

\* C3: two requests that run at the same time and encode the same value, new
\* to a label encoder, are returned the same code, and the value is in the
\* class list exactly once afterwards.
C3_SameValueSameCode ==
    (BothReturned("label") /\ BothNew /\ thr[1].value = thr[2].value)
        => /\ thr[1].ret = thr[2].ret
           /\ Occurrences(local_label_encoders[thr[1].feature], thr[1].value) = 1

\* C4: two requests that run at the same time and each add a different new
\* value to the same label encoder leave both values in the class list, with
\* two different codes.
C4_NeitherInsertLost ==
    (BothReturned("label") /\ BothNew /\ thr[1].value # thr[2].value)
        => /\ \A t \in Threads :
                InSeq(local_label_encoders[thr[t].feature], thr[t].value)
           /\ thr[1].ret # thr[2].ret

\* Every entry of the table before is an entry of the table after, at the same
\* place (label encoder) or with the same count (frequency encoder)
LabelGrows(before, after) ==
    \/ before = NoClasses
    \/ /\ after # NoClasses
       /\ Len(after) >= Len(before)
       /\ \A i \in 1..Len(before) : after[i] = before[i]

FreqGrows(before, after) ==
    /\ DOMAIN before \subseteq DOMAIN after
    /\ \A k \in DOMAIN before : after[k] = before[k]

\* C5: every encoder table is append-only: no entry is deleted, the number of
\* entries of a feature never decreases and a code or count once assigned to a
\* value never changes.
C5_AppendOnly ==
    [][/\ \A f \in DOMAIN local_label_encoders :
            LabelGrows(local_label_encoders[f], local_label_encoders'[f])
       /\ \A f \in DOMAIN local_freq_encoders :
            FreqGrows(local_freq_encoders[f], local_freq_encoders'[f])
       /\ \A f \in DOMAIN global_label_encoders :
            LabelGrows(global_label_encoders[f], global_label_encoders'[f])
       /\ \A f \in DOMAIN global_freq_encoders :
            FreqGrows(global_freq_encoders[f], global_freq_encoders'[f])]_vars

-----------------------------------------------------------------------------
(* Properties of the scoring pipeline *)

\* run_fraud_pipeline has returned its dict
Returned == call.pc = "done" /\ call.verdict.kind = "verdict"

\* Layer B reported is_suspicious
Suspicious == Len(call.verdict.layer2_rules_triggered) > 0

\* Layer C reported is_anomaly
Anomaly == call.verdict.local_layer_pred = 1

\* C1: in every verdict, a Layer B or Layer C trigger forces final_prediction = 1,
\* and final_prediction = 1 exactly when final_score > 0.5 or is_suspicious or
\* is_anomaly.
C1_FusionOverride ==
    Returned =>
        /\ (Suspicious \/ Anomaly) => call.verdict.final_prediction = 1
        /\ call.verdict.final_prediction = 1
              <=> (call.verdict.final_score > 5000 \/ Suspicious \/ Anomaly)
        /\ call.verdict.final_prediction \in {0, 1}

\* C1, witness: a verdict whose blended score is at most 0.5 and whose
\* prediction is 1 because Layer B triggered
C1_Witness ==
    /\ Returned /\ Suspicious /\ ~Anomaly
    /\ call.verdict.final_score <= 5000
    /\ call.verdict.final_prediction = 1

\* C2: a user with at most 10 rows before the request gets is_anomaly = 0,
\* confidence 0.0 and no rules from Layer C, through either endpoint.
C2_LayerCGating ==
    (Returned /\ call.prior <= 10) =>
        /\ call.verdict.local_layer_pred = 0
        /\ call.verdict.layer3_score = 0
        /\ call.verdict.rules_triggered = << >>

\* C7: run_fraud_pipeline always returns a verdict: a failing classifier or a
\* failing statistics query does not make it raise.
C7_AlwaysAVerdict ==
    call.pc = "done" => call.verdict.kind = "verdict"

C9_SilentServiceTimesOut ==
    (call.pc = "verifying" /\ call.service = "silent") => ENABLED Next

\* C10: without a classifier (global_model is None), a call whose statistics
\* query succeeds returns a verdict with global_score 0.5, Layer B and Layer C
\* are still evaluated, and no call changes the global encoder tables.
C10_NoModelNeutralScore ==
    /\ [](global_model = "None" =>
            /\ (call.pc = "done" /\ call.db_ok) => Returned
            /\ Returned =>
                /\ call.verdict.global_score = DefaultGlobalScore
                /\ (/\ Truthy(profile.transaction_limit)
                    /\ 100 * call.txn.amount > 95 * profile.transaction_limit)
                      => InSeq(call.verdict.layer2_rules_triggered, LimitRule)
                /\ (/\ call.txn_count > 10
                    /\ 100 * call.txn.amount > call.user_stats.amount_98_percentile)
                      => InSeq(call.verdict.rules_triggered, AllRules[1]))
    /\ [][global_model = "None" =>
            UNCHANGED << global_label_encoders, global_freq_encoders >>]_vars

\* C10, witness: no classifier, and a verdict with global_score 0.5 in which
\* Layer B and Layer C both triggered
C10_Witness ==
    /\ global_model = "None" /\ Returned
    /\ call.verdict.global_score = DefaultGlobalScore
    /\ Suspicious /\ Anomaly
    /\ global_label_encoders # EmptyDict

\* Every artifact was loaded when the process started
ArtifactsLoaded ==
    /\ global_model # "None"
    /\ global_label_encoders # EmptyDict /\ global_freq_encoders # EmptyDict
    /\ local_label_encoders # EmptyDict /\ local_freq_encoders # EmptyDict

\* C11: a process whose classifier or encoder artifacts did not load at startup
\* refuses to serve: every verdict returned comes from a process that loaded
\* all of its artifacts.
C11_RefusesToServe == Returned => ArtifactsLoaded

\* C12: the fused score is global_score when Layer B is not suspicious and
\* Layer C reports no anomaly, and 0.3*global_score + (0.4 if suspicious else 0)
\* + 0.3*confidence otherwise.
C12_FusedScore ==
    Returned =>
        call.verdict.final_score =
            IF ~Suspicious /\ ~Anomaly
            THEN call.verdict.global_score
            ELSE (3 * call.verdict.global_score) \div 10
                 + (IF Suspicious THEN Layer2Score ELSE 0)
                 + (3 * call.verdict.layer3_score) \div 10

\* C12, witness: a verdict of Layer C alone (anomaly, not suspicious) on a
\* classifier score above 0, blended to less than the classifier's score
C12_Witness ==
    /\ Returned /\ ~Suspicious /\ Anomaly
    /\ call.verdict.global_score = 5010
    /\ call.verdict.layer3_score > 0
    /\ call.verdict.final_score = 1503 + (3 * call.verdict.layer3_score) \div 10

\* C13: the final_score of every verdict lies in [0, 1].
C13_ScoreInUnitInterval ==
    Returned => (0 <= call.verdict.final_score /\ call.verdict.final_score <= 10000)

\* C13, witness: the classifier answered 1, Layer B and Layer C both triggered,
\* and the final score is above 0.8
C13_Witness ==
    /\ Returned /\ Suspicious /\ Anomaly
    /\ call.verdict.global_score = 10000
    /\ call.verdict.final_score > 8000

\* C14: when the profile's transaction_limit is set (not null) and the amount is
\* more than 0.95 of it, Layer B triggers the limit label, is_suspicious is true
\* and final_prediction is 1.
C14_LimitLabel ==
    (/\ Returned
     /\ profile.transaction_limit # NoNum
     /\ 100 * call.txn.amount > 95 * profile.transaction_limit)
        => /\ InSeq(call.verdict.layer2_rules_triggered, LimitRule)
           /\ call.verdict.layer2_score = Layer2Score
           /\ call.verdict.final_prediction = 1

\* The amounts of the transactions the user had before the request
PriorAmounts == [i \in 1..call.prior |-> db[i].amount]

\* C15: for a user with more than 10 prior transactions, a transaction whose
\* amount exceeds the 98th percentile of the amounts of those transactions gets
\* "Extreme High Amount" from Layer C, is_anomaly = 1 and final_prediction = 1.
C15_ExtremeHighAmount ==
    (/\ Returned
     /\ call.prior > 10
     /\ 100 * call.txn.amount > Percentile100(PriorAmounts, 98))
        => /\ InSeq(call.verdict.rules_triggered, AllRules[1])
           /\ Anomaly
           /\ call.verdict.final_prediction = 1

\* Layer C was evaluated for the request
Layer3Evaluated == Returned /\ call.txn_count > 10

\* The code the local tables give the scored transaction's own value of a
\* label-encoded feature (-1 without an encoder for it)
OwnLabelCode(feature, value) ==
    IF feature \in DOMAIN local_label_encoders
    THEN handle_new_category_label_encoder(local_label_encoders[feature], value).code
    ELSE -1

\* The count the local tables give the scored transaction's own value of a
\* frequency-encoded feature (0 without an encoder for it)
OwnFreqCode(feature, value) ==
    IF feature \in DOMAIN local_freq_encoders
    THEN handle_new_category_freq_encoder(local_freq_encoders[feature], value).code
    ELSE 0

\* C18: whenever Layer C is evaluated, "Night High Amount" is in rules_triggered
\* exactly when the transaction's is_night flag is true and its amount exceeds
\* the user's 80th-percentile amount.
C18_NightHighAmount ==
    Layer3Evaluated =>
        (InSeq(call.verdict.rules_triggered, AllRules[2])
            <=> /\ call.txn.is_night
                /\ 100 * call.txn.amount > call.user_stats.amount_80_percentile)

\* C19: whenever Layer C is evaluated, "Multiple Rare Patterns" is in
\* rules_triggered exactly when the count of the transaction's own encoded
\* device id is at most 2, the count of its own encoded beneficiary is at most
\* 2, and the amount exceeds the 80th-percentile amount.
C19_MultipleRarePatterns ==
    Layer3Evaluated =>
        (InSeq(call.verdict.rules_triggered, AllRules[5])
            <=> /\ DictGet(call.user_stats.device_id_counts,
                           OwnLabelCode("DEVICE_ID",
                                        OrDefault(call.txn.device_id, "Unknown")),
                           0) <= 2
                /\ DictGet(call.user_stats.vpa_counts,
                           OwnFreqCode("BENEFICIARY_VPA",
                                       OrDefault(call.txn.beneficiary_vpa, "Unknown")),
                           0) <= 2
                /\ 100 * call.txn.amount > call.user_stats.amount_80_percentile)

\* C20: whenever Layer C is evaluated, "High Amount QR Transaction" is in
\* rules_triggered exactly when the transaction's payment instrument, encoded
\* with the local label encoder, is the code the rule compares with (0) and its
\* amount exceeds qr_threshold.
C20_HighAmountQr ==
    Layer3Evaluated =>
        (InSeq(call.verdict.rules_triggered, AllRules[4])
            <=> /\ OwnLabelCode("PAYMENT_INSTRUMENT",
                                OrDefault(call.txn.payment_instrument, "UPI")) = 0
                /\ 100 * call.txn.amount > call.user_stats.qr_threshold)

-----------------------------------------------------------------------------
(* Functions of fraud_service called on their own *)

\* The amount every call of rule_based_layer3_predict is made with
Layer3Amount == 1000

\* The statistics rule_based_layer3_predict is called with: each threshold is
\* below or above the amount, the percentiles in their order; the device of
\* code 0 and the beneficiary of code 3 were seen five times
Layer3Stats ==
    { [ColdStats EXCEPT !.amount_98_percentile = 100 * p[3],
                        !.amount_70_percentile = 100 * p[1],
                        !.amount_80_percentile = 100 * p[2],
                        !.distance_85_percentile = 100 * 500,
                        !.qr_threshold = 100 * q,
                        !.device_id_counts = [c \in {0} |-> 5],
                        !.vpa_counts = [c \in {3} |-> 5]] :
        p \in { << 500, 500, 500 >>, << 500, 500, 2000 >>,
                << 500, 2000, 2000 >>, << 2000, 2000, 2000 >> },
        q \in {500, 2000} }

\* The attributes of the object rule_based_layer3_predict is called with: none
\* (as run_fraud_pipeline builds it), or the encoded features and is_night; the
\* beneficiary is one seen before (code 3) or one never seen (code 1)
Layer3Features ==
    {EmptyDict} \cup
    { [BENEFICIARY_VPA |-> vpa, DEVICE_ID |-> device, PAYMENT_INSTRUMENT |-> instrument,
       is_night |-> night] :
        vpa \in {3, 1}, night \in BOOLEAN, instrument \in {0, 1}, device \in {0, 1} }

\* The process as SpecFn starts it: the artifacts loaded or missing, no rows
InitFn ==
    /\ InitProgram
    /\ db = << >>
    /\ profile = [upi_id |-> "payer@upi", country |-> "India",
                  transaction_limit |-> NoNum]
    /\ call = IdleCall
    /\ thr = InitThreads
    /\ enc_log = InitEncLog
    /\ InitRest

\* What a call of a function that touches no table leaves alone
PureFrame ==
    UNCHANGED << global_model, global_label_encoders, global_freq_encoders,
                 local_label_encoders, local_freq_encoders, db, profile, call,
                 otp_store, thr, enc_log, now, otp_issued, ver, stepup >>

\* One call of rule_based_layer3_predict
Layer3Predict ==
    /\ \E features \in Layer3Features, user_stats \in Layer3Stats,
          distance_from_last \in {0, 1123} :
        fn' = [features |-> features,
               user_stats |-> user_stats,
               distance_from_last |-> distance_from_last,
               result |-> rule_based_layer3_predict(
                              [amount |-> Layer3Amount, class_attrs |-> EmptyDict,
                               instance_dict |-> features],
                              user_stats, distance_from_last),
               name |-> "rule_based_layer3_predict"]
    /\ PureFrame

\* The amounts, means and standard deviations is_amount_outlier is called with:
\* a deviation is never negative; 5000 and 2500 are the defaults of
\* calculate_amount_stats_from_db
OutlierAmounts == {0, 100, 399, 400, 401, 1000, 12500, 12501}
OutlierMeans   == {100, 5000}
OutlierStds    == {0, 100, 2500}

\* One call of is_amount_outlier
AmountOutlier ==
    /\ \E amount \in OutlierAmounts, amount_mean \in OutlierMeans,
          amount_std \in OutlierStds :
        fn' = [amount |-> amount,
               amount_mean |-> amount_mean, amount_std |-> amount_std,
               result |-> is_amount_outlier(amount, amount_mean, amount_std),
               name |-> "is_amount_outlier"]
    /\ PureFrame

NextFn ==
    \/ Layer3Predict
    \/ AmountOutlier

SpecFn == InitFn /\ [][NextFn]_vars

\* Is the i-th rule of Layer C among the triggered ones?
Fired(result, i) == InSeq(result.rules_triggered, AllRules[i])

\* C21: for every set of triggered Layer C rules the confidence is the sum of
\* the weights 1.0, 0.7, 0.8, 0.6, 0.9 of the triggered rules divided by 4.0
\* (here: 40 * confidence = 10000 * the weights in tenths), it lies in [0, 1],
\* and is_anomaly is 1 exactly when a rule triggered, which is exactly when the
\* confidence is positive.
C21_Confidence ==
    fn.name = "rule_based_layer3_predict" =>
        LET r == fn.result
            tenths == (IF Fired(r, 1) THEN 10 ELSE 0) + (IF Fired(r, 2) THEN 7 ELSE 0)
                      + (IF Fired(r, 3) THEN 8 ELSE 0) + (IF Fired(r, 4) THEN 6 ELSE 0)
                      + (IF Fired(r, 5) THEN 9 ELSE 0)
        IN /\ 40 * r.confidence = 10000 * tenths
           /\ 0 <= r.confidence /\ r.confidence <= 10000
           /\ r.is_anomaly \in {0, 1}
           /\ (r.is_anomaly = 1) <=> (r.rules_triggered # << >>)
           /\ (r.rules_triggered # << >>) <=> (r.confidence > 0)

\* C21 witness: "Night High Amount" and "High Amount QR Transaction" alone
\* triggered give the confidence (0.7 + 0.6) / 4.0 = 0.325
C21_Witness ==
    /\ fn.name = "rule_based_layer3_predict"
    /\ fn.result.rules_triggered = << AllRules[2], AllRules[4] >>
    /\ fn.result.confidence = 3250
    /\ fn.result.is_anomaly = 1

\* C25: is_amount_outlier returns 0 for every amount and mean when the standard
\* deviation is 0, and otherwise returns 1 exactly when |amount - mean| is more
\* than 3 standard deviations.
C25_AmountOutlier ==
    fn.name = "is_amount_outlier" =>
        IF fn.amount_std = 0
        THEN fn.result = 0
        ELSE (fn.result = 1 <=> Abs(fn.amount - fn.amount_mean) > 3 * fn.amount_std)
             /\ fn.result \in {0, 1}

\* C25 witness: with mean 100 and deviation 0, an amount of 1000 gives 0
C25_Witness ==
    /\ fn.name = "is_amount_outlier"
    /\ fn.amount_std = 0 /\ fn.amount = 1000 /\ fn.amount_mean = 100
    /\ fn.result = 0

-----------------------------------------------------------------------------
(* 4.3 get_user_transaction_stats called on its own *)

\* A place on the equator: its latitude is 0.0
Equator == [country |-> "Gabon", city |-> "Equator", latitude |-> 0, longitude |-> 9]

\* The fallback of a failed location lookup
NoPlace == [country |-> "Unknown", city |-> "Unknown", latitude |-> NoNum,
            longitude |-> NoNum]

\* The rows a history is made of: a small UPI payment from Delhi, a card
\* payment from Mumbai, a card payment from the equator, and a UPI payment
\* whose location lookup failed
StatsRows ==
    { NewTransaction(100, "P2P", "UPI", "friend@upi", Known, Delhi, FALSE),
      NewTransaction(1000, "P2M", "Card", "shop@upi", Known, Mumbai, FALSE),
      NewTransaction(500, "P2M", "Card", "shop@upi", Known, Equator, FALSE),
      NewTransaction(300, "P2P", "UPI", "friend@upi", Known, NoPlace, FALSE) }

\* The histories of a user: the rows in any order, with repetitions
Histories == UNION { [1..n -> StatsRows] : n \in 0..MaxHistory }

\* The process with the user's rows in the table
InitStats ==
    /\ InitProgram
    /\ db \in Histories
    /\ profile = [upi_id |-> "payer@upi", country |-> "India",
                  transaction_limit |-> NoNum]
    /\ call = IdleCall
    /\ thr = InitThreads
    /\ enc_log = InitEncLog
    /\ InitRest

\* What the functions of this section leave alone
StatsFrame ==
    UNCHANGED << global_model, global_label_encoders, global_freq_encoders,
                 db, profile, call, otp_store, thr, enc_log, now, otp_issued, ver, stepup >>

\* An earlier call of encode_local_features, on some transaction
EncodeLocalFeatures ==
    /\ fn = NoFn
    /\ \E txn \in StatsRows :
       \E e \in { encode_local_features(txn, local_label_encoders,
                                        local_freq_encoders) } :
        /\ local_label_encoders' = e.label
        /\ local_freq_encoders' = e.freq
    /\ UNCHANGED fn
    /\ StatsFrame

\* One call of get_user_transaction_stats for the user
UserTransactionStats ==
    /\ \E r \in { get_user_transaction_stats(db, local_label_encoders,
                                             local_freq_encoders) } :
        /\ local_label_encoders' = r.label
        /\ local_freq_encoders' = r.freq
        /\ fn' = [user_transactions |-> db,
                  distances |-> IF db = << >> THEN << >> ELSE DistancesOrZero(db),
                  result |-> r.stats,
                  name |-> "get_user_transaction_stats"]
    /\ StatsFrame

NextStats ==
    \/ EncodeLocalFeatures
    \/ UserTransactionStats

SpecStats == InitStats /\ [][NextStats]_vars

\* C22: for a user with an empty history get_user_transaction_stats returns
\* every amount percentile, the distance percentile and qr_threshold equal to
\* 0 and the three frequency tables empty, and changes no encoder table.
C22_ColdUser ==
    [][(fn' # fn /\ fn'.name = "get_user_transaction_stats"
                 /\ fn'.user_transactions = << >>)
       => /\ \A k \in {"amount_98_percentile", "amount_85_percentile",
                       "amount_70_percentile", "amount_80_percentile",
                       "amount_90_percentile", "distance_85_percentile",
                       "qr_threshold"} : fn'.result[k] = 0
          /\ \A k \in {"device_id_counts", "vpa_counts", "ip_counts"} :
                 DOMAIN fn'.result[k] = {}
          /\ UNCHANGED encoder_vars]_vars

\* C22 witness: the statistics of a user without rows have been computed
C22_Witness ==
    /\ fn.name = "get_user_transaction_stats"
    /\ fn.user_transactions = << >>
    /\ db = << >>
    /\ fn.result.qr_threshold = 0

\* A coordinate that is present: not null
Present(x) == x # NoNum

\* The distances between each row but the first and the row before it, for the
\* pairs whose four coordinates are present
RECURSIVE PresentDistances(_)
PresentDistances(user_transactions) ==
    IF Len(user_transactions) < 2 THEN << >>
    ELSE LET n        == Len(user_transactions)
             txn      == user_transactions[n]
             prev_txn == user_transactions[n - 1]
             rest     == PresentDistances(SubSeq(user_transactions, 1, n - 1))
         IN IF /\ Present(txn.latitude) /\ Present(txn.longitude)
               /\ Present(prev_txn.latitude) /\ Present(prev_txn.longitude)
            THEN Append(rest, haversine(prev_txn.latitude, prev_txn.longitude,
                                        txn.latitude, txn.longitude))
            ELSE rest

\* C23: get_user_transaction_stats computes one distance for every historical
\* transaction except the first, between it and the transaction before it,
\* whenever both have their coordinates present (not null); when no pair
\* yields a distance the list is [0] and distance_85_percentile is 0.
C23_Distances ==
    (fn.name = "get_user_transaction_stats" /\ fn.user_transactions # << >>) =>
        LET expected == PresentDistances(fn.user_transactions) IN
        IF expected = << >>
        THEN fn.distances = << 0 >> /\ fn.result.distance_85_percentile = 0
        ELSE /\ fn.distances = expected
             /\ fn.result.distance_85_percentile = Percentile100(expected, 85)

\* The amounts of the card payments of a history
CardAmounts(user_transactions) ==
    SelectAmounts(user_transactions,
                  [i \in 1..Len(user_transactions) |->
                      user_transactions[i].payment_instrument = "Card"])

\* C24: qr_threshold is the 90th percentile of the amounts of exactly the
\* historical transactions whose payment instrument is "Card", whatever code
\* the local label encoder has given to "Card" after the earlier encodes; with
\* no such transaction it is the 90th percentile of all amounts, and 0 when
\* there are no amounts.
C24_QrThreshold ==
    fn.name = "get_user_transaction_stats" =>
        LET h       == fn.user_transactions
            amounts == [i \in 1..Len(h) |-> h[i].amount]
        IN fn.result.qr_threshold =
               IF CardAmounts(h) # << >>
               THEN Percentile100(CardAmounts(h), 90)
               ELSE PercentileOr0(amounts, 90)

-----------------------------------------------------------------------------
(* The two scoring endpoints compared *)

\* C26: on both endpoints run_fraud_pipeline is handed the txn_count and the
\* history of the user's past transactions only: txn_count is the number of
\* rows the user had before the request, and the amount percentiles are those
\* of these rows, the transaction being scored not among them.
C26_PastTransactionsOnly ==
    /\ call.pc # "idle" => call.txn_count = call.prior
    /\ (call.pc = "verifying" \/ Returned) =>
          /\ call.user_stats.amount_98_percentile = PercentileOr0(PriorAmounts, 98)
          /\ call.user_stats.amount_80_percentile = PercentileOr0(PriorAmounts, 80)
          /\ call.user_stats.amount_70_percentile = PercentileOr0(PriorAmounts, 70)

-----------------------------------------------------------------------------
(* Step-up verification: POST /transaction/process, /transaction/auth/step-up-verify *)

\* The addresses a step-up request names in its `email` field
Emails == {"user@mail", "other@mail"}

\* str(random.randint(100000, 999999)), two of its values
StrOtpCodes == {"111111", "222222"}

\* The requests to /transaction/process: a usual payment or a large one, to no
\* named recipient
StepUpRequests ==
    { [UsualRequest EXCEPT !.amount = a, !.recipient_upi_id = ""] : a \in {100, 50000} }

\* A test that accepts any code once one is stored for the address
OtpMatches_AnyCode(store, email, otp) == email \in DOMAIN store

\* email in otp_store and otp_store[email] == otp
OtpMatches(store, email, otp) == email \in DOMAIN store /\ store[email] = otp

\* Transaction(...) as step_up_verify builds it from the parsed transaction_data:
\* initiation_mode and the time features are not set, is_fraud is True
StepUpTransaction(temp_data) ==
    [temp_data EXCEPT !.initiation_mode = None, !.is_night = FALSE, !.is_fraud = TRUE]

\* The process with the artifacts loaded and a user without rows whose
\* transaction limit is 10000
InitStepUp ==
    /\ global_model = "loaded"
    /\ global_label_encoders = GlobalLabelArtifact
    /\ global_freq_encoders = GlobalFreqArtifact
    /\ local_label_encoders = LocalLabelArtifact
    /\ local_freq_encoders = LocalFreqArtifact
    /\ otp_store = EmptyDict
    /\ db = << >>
    /\ profile = [upi_id |-> "payer@upi", country |-> "India",
                  transaction_limit |-> 10000]
    /\ call = IdleCall
    /\ thr = InitThreads
    /\ enc_log = InitEncLog
    /\ InitRest

\* What a step-up request leaves alone
StepUpFrame ==
    UNCHANGED << global_model, global_label_encoders, global_freq_encoders,
                 local_label_encoders, local_freq_encoders, profile, call,
                 thr, enc_log, fn, now, ver >>

\* POST /transaction/process with one of the requests of this section
ProcessForStepUp ==
    \E r \in StepUpRequests :
        Score("process",
              NewTransaction(r.amount, r.transaction_type, r.payment_method,
                             r.recipient_upi_id, r.client, r.place, r.is_night))

\* step_up_verify with action send_otp or resend_otp: a new code is stored for
\* the address, whether or not the mail is sent
StepUpIssue(action) ==
    /\ \E email \in Emails, otp_code \in StrOtpCodes, success \in BOOLEAN :
        /\ otp_store' = DictPut(otp_store, email, otp_code)
        /\ otp_issued' = DictPut(otp_issued, email, [at |-> now, row |-> 0])
        /\ stepup' = [otp |-> otp_code, matched |-> FALSE, action |-> action,
                      email |-> email,
                      outcome |-> IF success THEN "otp_sent" ELSE "send_failed",
                      issued_at |-> now, at |-> now]
    /\ UNCHANGED db
    /\ StepUpFrame

StepUpSendOtp == StepUpIssue("send_otp")

StepUpResendOtp == StepUpIssue("resend_otp")

\* The transaction_data a step-up request can carry: nothing (NoTransaction),
\* or what the results page of the flagged transaction holds
TransactionData ==
    {NoTransaction} \cup (IF call.response = "requires_verification" THEN {call.txn} ELSE {})

\* Is there a row with the transaction_id of transaction_data? The one scoring
\* request of a behaviour has the one id, so this is the row made from it
AlreadySaved(transaction_data) == InSeq(db, StepUpTransaction(transaction_data))

\* step_up_verify with action verify_otp
StepUpVerifyOtp ==
    /\ \E email \in Emails, otp \in StrOtpCodes, transaction_data \in TransactionData :
        IF OtpMatches(otp_store, email, otp)
        THEN /\ otp_store' = DictRemove(otp_store, email)
             /\ otp_issued' = DictRemove(otp_issued, email)
             /\ IF transaction_data = NoTransaction \/ AlreadySaved(transaction_data)
                THEN \* `"temp_txn_data" in None` raises, or the commit does
                     \* (transaction_id is the primary key): nothing is saved
                     /\ UNCHANGED db
                     /\ stepup' = [otp |-> otp, matched |-> TRUE,
                                   action |-> "verify_otp", email |-> email,
                                   outcome |-> "error",
                                   issued_at |-> otp_issued[email].at,
                                   at |-> now]
                ELSE /\ db' = Append(db, StepUpTransaction(transaction_data))
                     /\ stepup' = [otp |-> otp, matched |-> TRUE,
                                   action |-> "verify_otp", email |-> email,
                                   outcome |-> "verified",
                                   issued_at |-> otp_issued[email].at,
                                   at |-> now]
        ELSE /\ UNCHANGED << otp_store, otp_issued, db >>
             /\ stepup' = [otp |-> otp, matched |-> FALSE, action |-> "verify_otp",
                           email |-> email, outcome |-> "invalid",
                           issued_at |-> 0, at |-> now]
    /\ StepUpFrame

\* Five minutes pass
Tick ==
    /\ now < MaxClock
    /\ now' = now + 1
    /\ UNCHANGED << global_model, global_label_encoders, global_freq_encoders,
                    local_label_encoders, local_freq_encoders, db, profile, call,
                    otp_store, thr, enc_log, fn, otp_issued, ver, stepup >>

NextStepUp ==
    \/ ProcessForStepUp
    \/ StepUpSendOtp
    \/ StepUpResendOtp
    \/ StepUpVerifyOtp
    \/ Tick

SpecStepUp == InitStepUp /\ [][NextStepUp]_vars

\* C28: process_transaction does not write a transaction whose verdict is
\* final_prediction = 1 and writes one whose verdict is final_prediction = 0 at
\* once with is_fraud = False; a row with is_fraud = True is written only by a
\* step_up_verify request with action verify_otp whose OTP is the one stored
\* for its email.
C28_FlaggedSavedAfterOtp ==
    [][/\ (call.pc # "done" /\ call'.pc = "done" /\ call'.endpoint = "process"
                           /\ call'.verdict.kind = "verdict")
          => IF call'.verdict.final_prediction = 1
             THEN db' = db
             ELSE db' = Append(db, [call'.txn EXCEPT !.is_fraud = FALSE])
       /\ (Len(db') > Len(db) /\ db'[Len(db')].is_fraud)
          => /\ stepup'.action = "verify_otp"
             /\ stepup'.email \in DOMAIN otp_store
             /\ otp_store[stepup'.email] = stepup'.otp]_vars

\* C28 witness: the flagged transaction of 50000 rupees was not written by
\* process_transaction and is the row written after the OTP matched
C28_Witness ==
    /\ call.endpoint = "process" /\ call.response = "requires_verification"
    /\ call.verdict.final_prediction = 1
    /\ stepup.action = "verify_otp" /\ stepup.outcome = "verified"
    /\ Len(db) = 1 /\ db[1].is_fraud /\ db[1].amount = 50000

\* C27: a step-up OTP expires 10 minutes after it was stored: no verification
\* made more than 10 minutes (two units of time) after that succeeds.
C27_OtpExpires ==
    (stepup.action = "verify_otp" /\ stepup.matched) =>
        stepup.at - stepup.issued_at <= 2

-----------------------------------------------------------------------------
(* OTP verification: POST /transaction/, POST /transaction/verify_otp *)

\* Both endpoints are `def`: their requests run in the thread pool, one
\* statement of one request at a time.

\* What a step of a request to /verify_otp leaves alone
VerifyFrame ==
    UNCHANGED << global_model, global_label_encoders, global_freq_encoders,
                 local_label_encoders, local_freq_encoders, db, profile, call,
                 thr, enc_log, fn, now, stepup >>

\* POST /transaction/ with one of the requests of the step-up section
CreateForOtp ==
    \E r \in StepUpRequests :
        Score("create",
              NewTransaction(r.amount, r.transaction_type, r.payment_method,
                             r.recipient_upi_id, r.client, r.place, r.is_night))

\* The response of POST /transaction/ is sent; the user posts again
CreateAgain ==
    /\ call.pc = "done"
    /\ Len(db) < MaxCreates
    /\ call' = IdleCall
    /\ UNCHANGED << global_model, global_label_encoders, global_freq_encoders,
                    local_label_encoders, local_freq_encoders, db, profile,
                    otp_store, thr, enc_log, fn, now, otp_issued, ver, stepup >>

\* verify_otp, lines 147-149: stored_otp is read and compared with the form's otp
VerifyOtpRead ==
    /\ \E t \in Threads, otp \in OtpCodes :
        /\ ver[t].pc = "idle"
        /\ ver' = [ver EXCEPT ![t] =
                     IF OtpMatches(otp_store, profile.upi_id, otp)
                     THEN [pc |-> "checked", otp |-> otp,
                           matched |-> otp_issued[profile.upi_id].row, deleted |-> 0]
                     ELSE [pc |-> "rejected", otp |-> otp, matched |-> 0,
                           deleted |-> 0]]
    /\ UNCHANGED << otp_store, otp_issued >>
    /\ VerifyFrame

\* verify_otp, lines 152-154: del otp_store[profile.upi_id], which raises
\* KeyError when the entry is gone, and the response
VerifyOtpDelete ==
    /\ \E t \in Threads :
        /\ ver[t].pc = "checked"
        /\ IF profile.upi_id \in DOMAIN otp_store
           THEN /\ otp_store' = DictRemove(otp_store, profile.upi_id)
                /\ otp_issued' = DictRemove(otp_issued, profile.upi_id)
                /\ ver' = [ver EXCEPT ![t].pc = "verified",
                                      ![t].deleted = otp_store[profile.upi_id]]
           ELSE /\ UNCHANGED << otp_store, otp_issued >>
                /\ ver' = [ver EXCEPT ![t].pc = "error500"]
    /\ VerifyFrame

NextOtp ==
    \/ CreateForOtp
    \/ CreateAgain
    \/ VerifyOtpRead
    \/ VerifyOtpDelete

SpecOtp == InitStepUp /\ [][NextOtp]_vars

\* C29: an issued OTP is single-use: for each OTP issued at most one
\* verification request succeeds, under any interleaving of the requests, and
\* a request succeeds only with the code most recently issued for its key,
\* the code its success removes from otp_store.
C29_SingleUse ==
    /\ ~(/\ ver[1].pc = "verified" /\ ver[2].pc = "verified"
         /\ ver[1].matched = ver[2].matched)
    /\ \A t \in Threads : ver[t].pc = "verified" => ver[t].deleted = ver[t].otp

-----------------------------------------------------------------------------
(* run_fraud_pipeline called twice on the same transaction *)

\* global_model.predict_proba(X_global)[0][1] as a function of the encoded
\* categorical features (the other entries of X_global are the same whenever
\* the transaction and the history are): some function that tells any two
\* encodings apart, and raises on a feature that no encoder turned into a number
Classify(encoded, label_encoders, freq_encoders) ==
    IF \A key \in DOMAIN encoded :
           key \in (DOMAIN label_encoders) \cup (DOMAIN freq_encoders)
    THEN Min(10000, 100 * (1 + encoded.PAYER_VPA + 3 * encoded.BENEFICIARY_VPA
                             + 7 * encoded.INITIATION_MODE
                             + 13 * encoded.TRANSACTION_TYPE))
    ELSE Raises

\* What run_fraud_pipeline returns, or that it raised, and the tables afterwards;
\* start is what PipelineStart returned
PipelineResult(transaction_obj, profile_obj, txn_count, answer, start) ==
    IF start.raised
    THEN [verdict |-> NoVerdict("raised"), glabel |-> start.glabel,
          gfreq |-> start.gfreq, llabel |-> start.llabel, lfreq |-> start.lfreq]
    ELSE [verdict |-> PipelineFinish(transaction_obj, profile_obj, txn_count,
                                     start.user_stats, start.distance_from_last,
                                     start.global_score, answer,
                                     start.llabel, start.lfreq).verdict,
          glabel |-> start.glabel, gfreq |-> start.gfreq,
          llabel |-> PipelineFinish(transaction_obj, profile_obj, txn_count,
                                    start.user_stats, start.distance_from_last,
                                    start.global_score, answer,
                                    start.llabel, start.lfreq).llabel,
          lfreq |-> PipelineFinish(transaction_obj, profile_obj, txn_count,
                                   start.user_stats, start.distance_from_last,
                                   start.global_score, answer,
                                   start.llabel, start.lfreq).lfreq]

\* run_fraud_pipeline(transaction_obj, profile, txn_count, last_location, db)
\* with the identity-verification service answering `answer`
run_fraud_pipeline(transaction_obj, answer) ==
    PipelineResult(
        transaction_obj, profile, Len(db), answer,
        PipelineStart(transaction_obj, profile,
                      get_user_transaction_stats(db, local_label_encoders,
                                                 local_freq_encoders),
                      LastTransactionLocation(db), TRUE,
                      Classify(encode_categorical_features(
                                   prepare_global_features(transaction_obj, profile),
                                   global_label_encoders,
                                   global_freq_encoders).encoded,
                               global_label_encoders, global_freq_encoders),
                      global_model, global_label_encoders, global_freq_encoders,
                      local_label_encoders, local_freq_encoders))

\* The answers the service can give for a transaction: none if it is not asked
AnswersFor(transaction_obj) ==
    IF CallsVerify(transaction_obj) THEN UpiAnswers ELSE {"none"}

\* What a call of run_fraud_pipeline leaves alone
PipelineFrame ==
    UNCHANGED << global_model, db, profile, call, otp_store, thr, enc_log, now,
                 otp_issued, ver, stepup >>

\* The tables after a call that returned r
TablesAfter(r) ==
    /\ global_label_encoders' = r.glabel
    /\ global_freq_encoders' = r.gfreq
    /\ local_label_encoders' = r.llabel
    /\ local_freq_encoders' = r.lfreq

\* The first call, on some transaction
FirstCall ==
    /\ fn = NoFn
    /\ \E q \in Requests :
       \E transaction_obj \in
             { NewTransaction(q.amount, q.transaction_type, q.payment_method,
                              q.recipient_upi_id, q.client, q.place, q.is_night) } :
       \E answer \in AnswersFor(transaction_obj) :
       \E r \in { run_fraud_pipeline(transaction_obj, answer) } :
        /\ TablesAfter(r)
        /\ fn' = [txn |-> transaction_obj, answer |-> answer,
                  calls |-> 1, name |-> "run_fraud_pipeline",
                  first |-> r.verdict, second |-> NoVerdict("none")]
    /\ PipelineFrame

\* The second call, on the same transaction with the same answer
SecondCall ==
    /\ fn.name = "run_fraud_pipeline"
    /\ fn.calls = 1
    /\ \E r \in { run_fraud_pipeline(fn.txn, fn.answer) } :
        /\ TablesAfter(r)
        /\ fn' = [fn EXCEPT !.calls = 2, !.second = r.verdict]
    /\ PipelineFrame

NextTwice ==
    \/ FirstCall
    \/ SecondCall

SpecTwice == Init /\ [][NextTwice]_vars

\* C30: two calls of run_fraud_pipeline in succession on the same transaction,
\* with the same profile, history, txn_count and identity-verification answer,
\* return identical verdicts, although the first call may have appended new
\* categories to the global and local encoder tables.
C30_SameVerdictTwice ==
    (fn.name = "run_fraud_pipeline" /\ fn.calls = 2) => fn.first = fn.second

\* C30 witness: the first call met a transaction type and a beneficiary the
\* global tables did not have, appended them, and the second verdict is the first
C30_Witness ==
    /\ fn.name = "run_fraud_pipeline" /\ fn.calls = 2
    /\ fn.txn.transaction_type = "Bill"
    /\ global_model = "loaded"
    /\ "TRANSACTION_TYPE" \in DOMAIN global_label_encoders
    /\ InSeq(global_label_encoders.TRANSACTION_TYPE, "Bill")
    /\ fn.first.kind = "verdict"
    /\ fn.first = fn.second

====
